---- MODULE Spec2Model ----
(***************************************************************************)
(* Model of src/src/services/testService.ts: the per-participant status    *)
(* record kept in the 'userTestStatus' collection and the operations of    *)
(* testService that read and write it.  Every await on a store call        *)
(* (getDoc, setDoc, updateDoc) is one atomic step of the calling flow, so  *)
(* two flows interleave exactly at their store calls.  A store call either *)
(* succeeds or fails with an error code.                                   *)
(***************************************************************************)
EXTENDS Integers, Sequences, FiniteSets, TLC

\* ---------------------------------------------------------------- bounds
\* Wall-clock instants are 0..MaxClock.
MaxClock == 1
\* The exam scenario records no violation once a stored tabSwitchCount has
\* reached MaxCount; the other specifications stop at MaxTabs.
MaxCount == 7
MaxTabs == 2
\* No result is submitted once the testResults collection holds MaxResults.
MaxResults == 3
\* calculateScore is given at most MaxAnswers answers, shuffleQuestions at
\* most MaxQuestions questions and a participant id of at most MaxIdLen
\* characters.
MaxAnswers == 4
MaxQuestions == 4
MaxIdLen == 2
\* isTestAvailable is called within Skew milliseconds of the start and of the
\* end of the window (and at midnight and in the middle of the window).
Skew == 2

\* ------------------------------------------------------------- constants
\* Mutant: a threshold of one less.
maxTabSwitches_low == 5 - 1

\* getTestSettings().maxTabSwitches
maxTabSwitches == 5

Users == {"p1", "p2"}
Procs == {1, 2}

\* Error codes of the document store.
ErrorCodes == {"not-found", "permission-denied", "unavailable"}

\* A document with no fields (also: the data of a snapshot that does not exist).
NoData == [f \in {} |-> 0]

\* ----------------------------------------------------- document store API
\* {...a, ...b}: the fields of b override those of a.
Merge(a, b) ==
  [f \in DOMAIN a \cup DOMAIN b |-> IF f \in DOMAIN b THEN b[f] ELSE a[f]]

\* setDoc(ref, rec): the document becomes exactly rec, created if absent.
setDoc(st, u, rec) ==
  [v \in DOMAIN st \cup {u} |-> IF v = u THEN rec ELSE st[v]]

\* updateDoc(ref, fields) on an existing document: the given fields are
\* overwritten, the others kept.
updateDoc(st, u, fields) ==
  [v \in DOMAIN st |-> IF v = u THEN Merge(st[v], fields) ELSE st[v]]

\* getDoc(ref): the snapshot, with exists() and data().
getDoc(st, u) ==
  IF u \in DOMAIN st THEN [exists |-> TRUE, data |-> st[u]]
                     ELSE [exists |-> FALSE, data |-> NoData]

\* The error the store throws for a code.
StoreError(c) == [code |-> c, message |-> <<c>>]

\* new Error(error.message || fallback): a fresh error without a code.
NewError(err, fallback) ==
  [code |-> "none",
   message |-> IF err.message # <<>> THEN err.message ELSE <<fallback>>]

\* new Error(`Failed to get user test status: ${error.message}`)
WrapGetStatus(err) ==
  [code |-> "none",
   message |-> <<"Failed to get user test status: ">> \o err.message]

\* ------------------------------------------------------ field expressions
\* data.f || dflt  (a missing field and a falsy value both give dflt)
OrElse(data, f, dflt) ==
  IF f \in DOMAIN data /\ data[f] # dflt THEN data[f] ELSE dflt

\* data.tabSwitchCount || 0
CountOf(data) == OrElse(data, "tabSwitchCount", 0)

\* Mutant: the default record without its lastActivity.
defaultStatus_noActivity(userId, t) ==
  [userId |-> userId, hasSubmitted |-> FALSE, tabSwitchCount |-> 0,
   isTestCancelled |-> FALSE]

\* The object getUserTestStatus, updateUserTestStatus create for a new record.
defaultStatus(userId, t) ==
  [userId |-> userId, hasSubmitted |-> FALSE, tabSwitchCount |-> 0,
   isTestCancelled |-> FALSE, lastActivity |-> t]

\* The object getUserTestStatus returns for an existing document.
statusFromData(userId, data, t) ==
  LET base == [userId |-> userId,
               hasSubmitted |-> OrElse(data, "hasSubmitted", FALSE),
               tabSwitchCount |-> CountOf(data),
               isTestCancelled |-> OrElse(data, "isTestCancelled", FALSE),
               lastActivity |-> IF "lastActivity" \in DOMAIN data
                                THEN data.lastActivity ELSE t]
  IN IF "submissionDate" \in DOMAIN data
     THEN Merge(base, [submissionDate |-> data.submissionDate])
     ELSE base

\* Mutant: only not-found is recovered from.
readFallbackCodes_notFoundOnly == {"not-found"}

\* The codes of a failed read that getUserTestStatus recovers from.
readFallbackCodes == {"permission-denied", "not-found"}

\* Mutant: the spread order of the fallback, { lastActivity, ...status }.
updateFields_statusLast(status, t) == Merge([lastActivity |-> t], status)

\* updateUserTestStatus: the fields given to updateDoc.
updateFields(status, t) == Merge(status, [lastActivity |-> t])

\* updateUserTestStatus: the document created when updateDoc reports not-found.
updateCreateDoc(userId, status, t) == Merge(defaultStatus(userId, t), status)

\* Mutant: the update without the submissionDate.
markUpdateFields_noDate(t) == [hasSubmitted |-> TRUE, lastActivity |-> t]

\* markTestAsSubmitted: the fields given to updateDoc / the document created.
markUpdateFields(t) ==
  [hasSubmitted |-> TRUE, submissionDate |-> t, lastActivity |-> t]

markCreateDoc(userId, t) ==
  [userId |-> userId, hasSubmitted |-> TRUE, submissionDate |-> t,
   tabSwitchCount |-> 0, isTestCancelled |-> FALSE, lastActivity |-> t]

\* Mutant: the count read is written back without the increment.
newCount_stale(statusDoc) ==
  IF statusDoc.exists THEN CountOf(statusDoc.data) ELSE 1

\* Mutant: a cancelled or submitted record is counted no further.
newCount_locked(statusDoc) ==
  IF statusDoc.exists
  THEN IF \/ OrElse(statusDoc.data, "isTestCancelled", FALSE)
          \/ OrElse(statusDoc.data, "hasSubmitted", FALSE)
       THEN CountOf(statusDoc.data)
       ELSE CountOf(statusDoc.data) + 1
  ELSE 1

\* incrementTabSwitchCount: newCount, the fields updated, the document created.
newCount(statusDoc) ==
  IF statusDoc.exists THEN CountOf(statusDoc.data) + 1 ELSE 1

\* Mutant: the update also clears the submitted flag.
incUpdateFields_resets(n, t) ==
  [tabSwitchCount |-> n, lastActivity |-> t, hasSubmitted |-> FALSE]

incUpdateFields(n, t) == [tabSwitchCount |-> n, lastActivity |-> t]

incCreateDoc(userId, n, t) ==
  [userId |-> userId, hasSubmitted |-> FALSE, tabSwitchCount |-> n,
   isTestCancelled |-> FALSE, lastActivity |-> t]

\* cancelTest: the fields given to updateDoc / the document created.
cancelUpdateFields(t) == [isTestCancelled |-> TRUE, lastActivity |-> t]

\* Mutant: the created document is the default one, not cancelled.
cancelCreateDoc_default(userId, t) ==
  [userId |-> userId, hasSubmitted |-> FALSE, tabSwitchCount |-> 0,
   isTestCancelled |-> FALSE, lastActivity |-> t]

cancelCreateDoc(userId, t) ==
  [userId |-> userId, hasSubmitted |-> FALSE, tabSwitchCount |-> 0,
   isTestCancelled |-> TRUE, lastActivity |-> t]

\* ------------------------------------------------------------------ state
VARIABLES
  store,    \* the userTestStatus collection: participant id -> document
  now,      \* the wall clock, new Date()
  op,       \* op[p]: the operation flow p is executing
  pc,       \* pc[p]: the store call flow p is awaiting
  uid,      \* uid[p]: the userId argument
  arg,      \* arg[p]: the status argument of updateUserTestStatus, the
            \* testResult argument of submitTestResult
  req,      \* req[p]: the write the flow has sent to the store
  resp,     \* resp[p]: how the store answered the flow's latest call
  ret,      \* ret[p]: what the operation returned or threw
  cont,     \* cont[p]: the caller the operation returns into
  recorded, \* recorded[u]: the violations the exam page has recorded for u
  results,  \* the testResults collection, in the order of creation
  call,     \* a call of one of the synchronous functions of testService
  out       \* what that call returned

vars == <<store, now, op, pc, uid, arg, req, resp, ret, cont, recorded,
          results, call, out>>

NoReq == [kind |-> "none", data |-> NoData]
SetReq(doc) == [kind |-> "setDoc", data |-> doc]
UpdateReq(fields) == [kind |-> "updateDoc", data |-> fields]
NoRet == [kind |-> "none"]
Ok(v) == [kind |-> "ok", value |-> v]
Thrown(e) == [kind |-> "thrown", error |-> e]
Void == "undefined"

\* The partial statuses callers pass to updateUserTestStatus.
PartialStatuses ==
  { [hasSubmitted |-> TRUE],
    [isTestCancelled |-> TRUE],
    [tabSwitchCount |-> 1],
    [lastActivity |-> 0] }

\* A document of the collection that this service did not write: it has no
\* tabSwitchCount, isTestCancelled or lastActivity field.
LegacyDoc(u) == [userId |-> u, hasSubmitted |-> FALSE]

IdleFlows ==
  /\ now = 0
  /\ op = [p \in Procs |-> "none"]
  /\ pc = [p \in Procs |-> "idle"]
  /\ uid = [p \in Procs |-> "p1"]
  /\ arg = [p \in Procs |-> NoData]
  /\ req = [p \in Procs |-> NoReq]
  /\ resp = [p \in Procs |-> "none"]
  /\ ret = [p \in Procs |-> NoRet]
  /\ cont = [p \in Procs |-> "none"]
  /\ recorded = [u \in Users |-> 0]

\* No result is stored and no synchronous function is being called.
NoCall == [fn |-> "none"]

NoResults == results = <<>> /\ call = NoCall /\ out = NoRet

Init ==
  /\ \E legacy \in SUBSET Users : store = [u \in legacy |-> LegacyDoc(u)]
  /\ IdleFlows
  /\ NoResults

\* The codes a failed setDoc, or a failed updateDoc of an existing document, has.
WriteErrorCodes == {"permission-denied", "unavailable"}

\* The store has answered c and the operation of flow p ends with r.
Finish(p, c, r) ==
  /\ pc' = [pc EXCEPT ![p] = "done"]
  /\ resp' = [resp EXCEPT ![p] = c]
  /\ ret' = [ret EXCEPT ![p] = r]
  /\ req' = [req EXCEPT ![p] = NoReq]

\* The store has answered c and flow p sends the write w.
Issue(p, c, label, w) ==
  /\ pc' = [pc EXCEPT ![p] = label]
  /\ resp' = [resp EXCEPT ![p] = c]
  /\ req' = [req EXCEPT ![p] = w]
  /\ ret' = ret

Locals == <<op, uid, arg, cont, recorded, results, call, out>>

\* A caller invokes operation o of testService for participant u.  The
\* arguments of updateDoc in updateUserTestStatus are built in the call.
Call(p, o, u, status, caller, cap) ==
  /\ pc[p] = "idle"
  /\ o = "incrementTabSwitchCount" =>
       (u \in DOMAIN store => CountOf(store[u]) < cap)
  /\ op' = [op EXCEPT ![p] = o]
  /\ pc' = [pc EXCEPT ![p] = IF o = "updateUserTestStatus" THEN "updateDoc"
                             ELSE "getDoc"]
  /\ uid' = [uid EXCEPT ![p] = u]
  /\ arg' = [arg EXCEPT ![p] = status]
  /\ req' = [req EXCEPT ![p] = IF o = "updateUserTestStatus"
                               THEN UpdateReq(updateFields(status, now))
                               ELSE NoReq]
  /\ cont' = [cont EXCEPT ![p] = caller]
  /\ UNCHANGED <<store, now, resp, ret, recorded, results, call, out>>

StatusOps == {"getUserTestStatus", "markTestAsSubmitted",
              "incrementTabSwitchCount", "cancelTest"}

Start(p, users, partials, cap) ==
  \/ \E o \in StatusOps, u \in users : Call(p, o, u, NoData, "none", cap)
  \/ \E u \in users, status \in partials :
       Call(p, "updateUserTestStatus", u, status, "none", cap)

\* ------------------------------------------------------ getUserTestStatus
getUserTestStatus_getDoc(p) ==
  /\ op[p] = "getUserTestStatus" /\ pc[p] = "getDoc"
  /\ \/ /\ uid[p] \in DOMAIN store
        /\ Finish(p, "ok", Ok(statusFromData(uid[p], store[uid[p]], now)))
     \/ /\ uid[p] \notin DOMAIN store
        /\ Issue(p, "ok", "create", SetReq(defaultStatus(uid[p], now)))
     \/ \E c \in ErrorCodes :
          IF c \in readFallbackCodes
          THEN Issue(p, c, "setDoc", SetReq(defaultStatus(uid[p], now)))
          ELSE Finish(p, c, Thrown(WrapGetStatus(StoreError(c))))
  /\ UNCHANGED <<store, now, Locals>>

\* The setDoc of a record that was not there.  It is awaited inside the try
\* whose catch is the read fallback: when it fails with one of the codes the
\* catch recovers from, the catch sends the setDoc of a new default record.
getUserTestStatus_create(p) ==
  /\ op[p] = "getUserTestStatus" /\ pc[p] = "create"
  /\ \/ /\ store' = setDoc(store, uid[p], req[p].data)
        /\ Finish(p, "ok", Ok(req[p].data))
     \/ /\ \E c \in WriteErrorCodes :
             IF c \in readFallbackCodes
             THEN Issue(p, c, "setDoc", SetReq(defaultStatus(uid[p], now)))
             ELSE Finish(p, c, Thrown(WrapGetStatus(StoreError(c))))
        /\ store' = store
  /\ UNCHANGED <<now, Locals>>

\* The setDoc of the catch: a failure of it is thrown.
getUserTestStatus_setDoc(p) ==
  /\ op[p] = "getUserTestStatus" /\ pc[p] = "setDoc"
  /\ \/ /\ store' = setDoc(store, uid[p], req[p].data)
        /\ Finish(p, "ok", Ok(req[p].data))
     \/ /\ \E c \in WriteErrorCodes :
             Finish(p, c, Thrown(WrapGetStatus(StoreError(c))))
        /\ store' = store
  /\ UNCHANGED <<now, Locals>>

\* --------------------------------------------------- updateUserTestStatus
updateUserTestStatus_updateDoc(p) ==
  /\ op[p] = "updateUserTestStatus" /\ pc[p] = "updateDoc"
  /\ \/ /\ uid[p] \in DOMAIN store
        /\ store' = updateDoc(store, uid[p], req[p].data)
        /\ Finish(p, "ok", Ok(Void))
     \/ /\ uid[p] \notin DOMAIN store
        /\ Issue(p, "not-found", "setDoc",
                 SetReq(updateCreateDoc(uid[p], arg[p], now)))
        /\ store' = store
     \/ /\ \E c \in WriteErrorCodes :
             Finish(p, c, Thrown(NewError(StoreError(c),
                                          "Failed to update user test status")))
        /\ store' = store
  /\ UNCHANGED <<now, Locals>>

updateUserTestStatus_setDoc(p) ==
  /\ op[p] = "updateUserTestStatus" /\ pc[p] = "setDoc"
  /\ \/ /\ store' = setDoc(store, uid[p], req[p].data)
        /\ Finish(p, "ok", Ok(Void))
     \/ /\ \E c \in WriteErrorCodes : Finish(p, c, Thrown(StoreError(c)))
        /\ store' = store
  /\ UNCHANGED <<now, Locals>>

\* ------------------ markTestAsSubmitted / incrementTabSwitchCount / cancelTest
\* The three operations share their shape: getDoc, then updateDoc if the
\* snapshot exists and setDoc if not; every failure is rethrown as a new Error.
FailureMessage(o) ==
  CASE o = "markTestAsSubmitted" -> "Failed to mark test as submitted"
    [] o = "incrementTabSwitchCount" -> "Failed to increment tab switch count"
    [] o = "cancelTest" -> "Failed to cancel test"

\* fields: what updateDoc is given if the document exists; doc: what setDoc is
\* given if not.
ReadThenWrite_getDoc(p, o, fields, doc) ==
  /\ op[p] = o /\ pc[p] = "getDoc"
  /\ \/ Issue(p, "ok", "write",
              IF getDoc(store, uid[p]).exists THEN UpdateReq(fields)
                                              ELSE SetReq(doc))
     \/ \E c \in ErrorCodes :
          Finish(p, c, Thrown(NewError(StoreError(c), FailureMessage(o))))
  /\ UNCHANGED <<store, now, Locals>>

\* The store applies the write (no operation deletes a document, so the
\* document an updateDoc addresses still exists); value: what is returned.
ReadThenWrite_write(p, o, value) ==
  /\ op[p] = o /\ pc[p] = "write"
  /\ \/ /\ req[p].kind = "updateDoc"
        /\ store' = updateDoc(store, uid[p], req[p].data)
        /\ Finish(p, "ok", Ok(value))
     \/ /\ req[p].kind = "setDoc"
        /\ store' = setDoc(store, uid[p], req[p].data)
        /\ Finish(p, "ok", Ok(value))
     \/ /\ \E c \in WriteErrorCodes :
             Finish(p, c, Thrown(NewError(StoreError(c), FailureMessage(o))))
        /\ store' = store
  /\ UNCHANGED <<now, Locals>>

markTestAsSubmitted_getDoc(p) ==
  ReadThenWrite_getDoc(p, "markTestAsSubmitted", markUpdateFields(now),
                       markCreateDoc(uid[p], now))

markTestAsSubmitted_write(p) ==
  ReadThenWrite_write(p, "markTestAsSubmitted", Void)

\* (the model reads no count of cap or more, which keeps the counter bounded)
incrementTabSwitchCount_getDoc(p, cap) ==
  /\ newCount(getDoc(store, uid[p])) <= cap
  /\ ReadThenWrite_getDoc(p, "incrementTabSwitchCount",
                          incUpdateFields(newCount(getDoc(store, uid[p])), now),
                          incCreateDoc(uid[p], newCount(getDoc(store, uid[p])), now))

\* return newCount: the count the write carries.
incrementTabSwitchCount_write(p) ==
  ReadThenWrite_write(p, "incrementTabSwitchCount", req[p].data.tabSwitchCount)

cancelTest_getDoc(p) ==
  ReadThenWrite_getDoc(p, "cancelTest", cancelUpdateFields(now),
                       cancelCreateDoc(uid[p], now))

cancelTest_write(p) == ReadThenWrite_write(p, "cancelTest", Void)

\* ------------------------------------------------------------ test results
\* The testResults collection is the sequence of its documents in the order
\* of creation; a document is [id |-> its identity, data |-> its fields].
\* addDoc gives the new document an identity no other document has: here the
\* number of documents the collection then holds.
AddReq(doc) == [kind |-> "addDoc", data |-> doc]

\* Mutant: every document gets the same identity.
addDoc_sameId(coll, doc) == Append(coll, [id |-> 1, data |-> doc])

addDoc(coll, doc) == Append(coll, [id |-> Len(coll) + 1, data |-> doc])

\* The results callers submit: the completedAt they carry is any instant.
TestResults(users) ==
  { [userId |-> u, score |-> sc, completedAt |-> c, status |-> "completed"] :
      u \in users, sc \in {0, 1}, c \in 0..MaxClock }

\* Mutant: the caller's completedAt wins.
addDocData_callerLast(testResult, t) == Merge([completedAt |-> t], testResult)

\* {...testResult, completedAt: new Date()}
addDocData(testResult, t) == Merge(testResult, [completedAt |-> t])

\* submitTestResult(testResult): it first awaits markTestAsSubmitted.
submitTestResultOf(p, testResults) ==
  \E testResult \in testResults :
    /\ Len(results) < MaxResults
    /\ Call(p, "markTestAsSubmitted", testResult.userId, testResult,
            "submitTestResult", MaxTabs)

submitTestResult(p, users) == submitTestResultOf(p, TestResults(users))

\* Mutant: the result is added whether or not the marking succeeded.
submitTestResult_marked_anyway(p) ==
  /\ pc[p] = "done" /\ cont[p] = "submitTestResult"
  /\ op' = [op EXCEPT ![p] = "submitTestResult"]
  /\ cont' = [cont EXCEPT ![p] = "none"]
  /\ pc' = [pc EXCEPT ![p] = "addDoc"]
  /\ req' = [req EXCEPT ![p] = AddReq(addDocData(arg[p], now))]
  /\ ret' = [ret EXCEPT ![p] = NoRet]
  /\ UNCHANGED <<store, now, uid, arg, resp, recorded, results, call, out>>

\* markTestAsSubmitted has returned or thrown: on success addDoc is called
\* with the record built now, on failure the catch rethrows a new Error.
submitTestResult_marked(p) ==
  /\ pc[p] = "done" /\ cont[p] = "submitTestResult"
  /\ op' = [op EXCEPT ![p] = "submitTestResult"]
  /\ cont' = [cont EXCEPT ![p] = "none"]
  /\ IF ret[p].kind = "ok"
     THEN /\ pc' = [pc EXCEPT ![p] = "addDoc"]
          /\ req' = [req EXCEPT ![p] = AddReq(addDocData(arg[p], now))]
          /\ ret' = [ret EXCEPT ![p] = NoRet]
     ELSE /\ ret' = [ret EXCEPT ![p] =
                       Thrown(NewError(ret[p].error,
                                       "Failed to submit test result"))]
          /\ UNCHANGED <<pc, req>>
  /\ UNCHANGED <<store, now, uid, arg, resp, recorded, results, call, out>>

\* The store adds the document and answers with its reference, or fails.
submitTestResult_addDoc(p) ==
  /\ op[p] = "submitTestResult" /\ pc[p] = "addDoc"
  /\ \/ /\ results' = addDoc(results, req[p].data)
        /\ Finish(p, "ok", Ok(Len(results) + 1))
     \/ /\ \E c \in WriteErrorCodes :
             Finish(p, c, Thrown(NewError(StoreError(c),
                                          "Failed to submit test result")))
        /\ results' = results
  /\ UNCHANGED <<store, now, op, uid, arg, cont, recorded, call, out>>

\* where('userId', '==', userId): the positions of the matching documents.
Matching(coll, userId) ==
  {i \in 1..Len(coll) : coll[i].data.userId = userId}

\* The orders in which the store may hand over the documents of a query that
\* asks for no order.
Orders(S) ==
  {o \in [1..Cardinality(S) -> S] : \A i, j \in DOMAIN o : o[i] = o[j] => i = j}

\* {id: doc.id, ...doc.data()}
resultOf(d) == Merge([id |-> d.id], d.data)

\* Mutant: the comparator of an ascending sort.
compareCompletedAt_asc(a, b) == a.completedAt - b.completedAt

\* dateB.getTime() - dateA.getTime()
compareCompletedAt(a, b) == b.completedAt - a.completedAt

\* Array.prototype.sort with that comparator: the sort is stable, x comes
\* after every element it does not have to precede.
RECURSIVE insertSorted(_, _)
insertSorted(s, x) ==
  IF s = <<>> THEN <<x>>
  ELSE IF compareCompletedAt(s[Len(s)], x) <= 0
       THEN Append(s, x)
       ELSE Append(insertSorted(SubSeq(s, 1, Len(s) - 1), x), s[Len(s)])

RECURSIVE sort(_)
sort(s) ==
  IF s = <<>> THEN <<>>
  ELSE insertSorted(sort(SubSeq(s, 1, Len(s) - 1)), s[Len(s)])

\* getUserTestResults(userId): the query is sent.
getUserTestResults(p, users) ==
  \E u \in users :
    /\ pc[p] = "idle"
    /\ op' = [op EXCEPT ![p] = "getUserTestResults"]
    /\ pc' = [pc EXCEPT ![p] = "getDocs"]
    /\ uid' = [uid EXCEPT ![p] = u]
    /\ UNCHANGED <<store, now, arg, req, resp, ret, cont, recorded,
                   results, call, out>>

\* The store answers with the matching documents in some order, or fails.
getUserTestResults_getDocs(p) ==
  /\ op[p] = "getUserTestResults" /\ pc[p] = "getDocs"
  /\ \/ \E o \in Orders(Matching(results, uid[p])) :
          Finish(p, "ok",
                 Ok(sort([i \in DOMAIN o |-> resultOf(results[o[i]])])))
     \/ \E c \in ErrorCodes :
          Finish(p, c, Thrown(NewError(StoreError(c),
                                       "Failed to get test results")))
  /\ UNCHANGED <<store, now, Locals>>

\* getAllTestResults(): the query is sent.
getAllTestResults(p) ==
  /\ pc[p] = "idle"
  /\ op' = [op EXCEPT ![p] = "getAllTestResults"]
  /\ pc' = [pc EXCEPT ![p] = "getDocs"]
  /\ UNCHANGED <<store, now, uid, arg, req, resp, ret, cont, recorded,
                 results, call, out>>

\* orderBy('completedAt', 'desc'): the orders in which the store may hand
\* over the whole collection.
OrdersByCompletedAt(coll) ==
  {o \in Orders(DOMAIN coll) :
     \A i, j \in DOMAIN o :
       i < j => coll[o[i]].data.completedAt >= coll[o[j]].data.completedAt}

\* The store answers with all documents in such an order, or fails.
getAllTestResults_getDocs(p) ==
  /\ op[p] = "getAllTestResults" /\ pc[p] = "getDocs"
  /\ \/ \E o \in OrdersByCompletedAt(results) :
          Finish(p, "ok", Ok([i \in DOMAIN o |-> resultOf(results[o[i]])]))
     \/ \E c \in ErrorCodes :
          Finish(p, c, Thrown(NewError(StoreError(c),
                                       "Failed to get all test results")))
  /\ UNCHANGED <<store, now, Locals>>

\* ---------------------------------------------------- scoring and grading
\* A JavaScript number that is an integer, and NaN.
Num(v) == [nan |-> FALSE, val |-> v]
NaN == [nan |-> TRUE, val |-> 0]

\* Mutant: the percentage is truncated.
percentageOf_floor(correctAnswers, totalQuestions) ==
  IF totalQuestions = 0 THEN NaN
  ELSE Num((100 * correctAnswers) \div totalQuestions)

\* Math.round((correctAnswers / totalQuestions) * 100).  With no answers it
\* is Math.round(0 / 0 * 100) = NaN; otherwise the nearest integer, a half
\* rounded up (the doubles of the code give exactly this integer for every
\* totalQuestions below 40).
percentageOf(correctAnswers, totalQuestions) ==
  IF totalQuestions = 0 THEN NaN
  ELSE Num((200 * correctAnswers + totalQuestions) \div (2 * totalQuestions))

calculateScore(answers) ==
  LET correctAnswers ==
        Len(SelectSeq(answers, LAMBDA answer : answer.isCorrect))
      totalQuestions == Len(answers)
  IN  [score |-> correctAnswers,
       percentage |-> percentageOf(correctAnswers, totalQuestions)]

\* Mutant: the bounds are exclusive.
AtLeast_strict(x, k) == ~x.nan /\ x.val > k

\* x >= k, which is false when x is NaN.
AtLeast(x, k) == ~x.nan /\ x.val >= k

getGradeFromPercentage(percentage) ==
  IF AtLeast(percentage, 90)
  THEN [grade |-> "A+", color |-> "text-green-400",
        message |-> "Outstanding Performance!"]
  ELSE IF AtLeast(percentage, 80)
  THEN [grade |-> "A", color |-> "text-green-400",
        message |-> "Excellent Work!"]
  ELSE IF AtLeast(percentage, 70)
  THEN [grade |-> "B+", color |-> "text-blue-400",
        message |-> "Good Performance!"]
  ELSE IF AtLeast(percentage, 60)
  THEN [grade |-> "B", color |-> "text-blue-400",
        message |-> "Satisfactory!"]
  ELSE IF AtLeast(percentage, 50)
  THEN [grade |-> "C", color |-> "text-yellow-400",
        message |-> "Needs Improvement!"]
  ELSE [grade |-> "F", color |-> "text-red-400",
        message |-> "Better Luck Next Time!"]

\* ------------------------------------------------------- the test window
\* Instants of the window are milliseconds after 2025-08-30T00:00:00, local
\* time.  getTestSettings().testStartTime = new Date('2025-08-30T11:36:00')
testStartTime == (11 * 60 + 36) * 60 * 1000

\* Mutant: the start itself is outside the window.
isTestAvailable_afterStart(t) ==
  LET start == testStartTime
      end == start + 30 * 60 * 1000
  IN  t > start /\ t <= end

\* isTestAvailable() called at the instant t = new Date()
isTestAvailable(t) ==
  LET start == testStartTime
      end == start + 30 * 60 * 1000
  IN  t >= start /\ t <= end

getTestEndTime == testStartTime + 30 * 60 * 1000

\* ------------------------------------------------------- shuffleQuestions
\* A participant id is the sequence of its characters.
Chars == {"p", "1", "2"}

\* char.charCodeAt(0)
charCodeAt(c) == CASE c = "p" -> 112 [] c = "1" -> 49 [] c = "2" -> 50

\* userId.split('').reduce((acc, char) => acc + char.charCodeAt(0), 0)
RECURSIVE seedOf(_)
seedOf(userId) ==
  IF userId = <<>> THEN 0
  ELSE seedOf(SubSeq(userId, 1, Len(userId) - 1))
         + charCodeAt(userId[Len(userId)])

\* random = (random * 9301 + 49297) % 233280.  The code computes the product
\* exactly (it is below 2^53); here 9301 = 93 * 100 + 1 is multiplied in two
\* steps so that no intermediate value exceeds 32 bits.
seededRandom(random) ==
  (((random * 93) % 233280) * 100 + random + 49297) % 233280

\* Mutant: the index is drawn below i.
drawIndex_below(random, i) == (random * i) \div 233280

\* Math.floor((random / 233280) * (i + 1)); the doubles of the code give
\* this integer for every list of at most 40 questions.
drawIndex(random, i) == (random * (i + 1)) \div 233280

\* Mutant: the swap loses the element at i.
swap_overwrite(a, i, j) == [a EXCEPT ![i] = a[j]]

\* [a[i], a[j]] = [a[j], a[i]]
swap(a, i, j) == [a EXCEPT ![i] = a[j], ![j] = a[i]]

\* The loop for (let i = ...; i > 0; i--) from index i on, the generator
\* being in state random; indices of the code count from 0, those of a
\* sequence from 1.
RECURSIVE shuffleFrom(_, _, _)
shuffleFrom(shuffled, i, random) ==
  IF i > 0
  THEN LET next == seededRandom(random)
           j == drawIndex(next, i)
       IN  shuffleFrom(swap(shuffled, i + 1, j + 1), i - 1, next)
  ELSE shuffled

\* Mutant: the generator goes on from where earlier calls have left it.
shuffleQuestions_carried(questions, userId) ==
  shuffleFrom(questions, Len(questions) - 1,
              seedOf(userId) + Cardinality({p \in Procs : ret[p].kind = "ok"}))

shuffleQuestions(questions, userId) ==
  shuffleFrom(questions, Len(questions) - 1, seedOf(userId))

\* ------------------------------------------- calls of the synchronous functions
\* The arguments the functions are called with.
Answers ==
  {[questionId |-> "q1", selectedAnswer |-> 0, isCorrect |-> b] : b \in BOOLEAN}

AnswerLists == UNION {[1..n -> Answers] : n \in 0..MaxAnswers}

Percentages == {Num(v) : v \in 0..100} \cup {NaN}

Questions == {"q1", "q2", "q3"}

QuestionLists == UNION {[1..n -> Questions] : n \in 0..MaxQuestions}

UserIds == UNION {[1..n -> Chars] : n \in 0..MaxIdLen}

\* The instants at which isTestAvailable is called.
Instants ==
  {testStartTime + d : d \in -Skew..Skew}
    \cup {getTestEndTime + d : d \in -Skew..Skew}
    \cup {(testStartTime + getTestEndTime) \div 2}

\* One call of a synchronous function, at midnight; no status and no result
\* is stored.
InitPure ==
  /\ store = [u \in {} |-> NoData]
  /\ IdleFlows
  /\ results = <<>>
  /\ out = NoRet
  /\ \/ \E answers \in AnswerLists :
          call = [fn |-> "calculateScore", answers |-> answers]
     \/ \E percentage \in Percentages :
          call = [fn |-> "getGradeFromPercentage", percentage |-> percentage]
     \/ call = [fn |-> "isTestAvailable"]
     \/ call = [fn |-> "getTestEndTime"]
     \/ \E questions \in QuestionLists, userId \in UserIds :
          call = [fn |-> "shuffleQuestions", questions |-> questions,
                  userId |-> userId]

\* The function of the call returns v.
Returns(fn, v) ==
  /\ call.fn = fn /\ out.kind = "none"
  /\ out' = Ok(v)
  /\ UNCHANGED <<store, now, op, pc, uid, arg, req, resp, ret, cont, recorded,
                 results, call>>

calculateScore_call == Returns("calculateScore", calculateScore(call.answers))

getGradeFromPercentage_call ==
  Returns("getGradeFromPercentage", getGradeFromPercentage(call.percentage))

isTestAvailable_call == Returns("isTestAvailable", isTestAvailable(now))

getTestEndTime_call == Returns("getTestEndTime", getTestEndTime)

shuffleQuestions_call ==
  Returns("shuffleQuestions", shuffleQuestions(call.questions, call.userId))

\* Time passes, to one of the instants.
Pass ==
  /\ \E t \in Instants : t > now /\ now' = t
  /\ UNCHANGED <<store, op, pc, uid, arg, req, resp, ret, cont, recorded,
                 results, call, out>>

\* ---------------------------------------------------------------- callers
\* The exam page on a tab switch: it records the violation and cancels the
\* test once the count exceeds maxTabSwitches.
onViolation(p, users) ==
  \E u \in users :
    Call(p, "incrementTabSwitchCount", u, NoData, "onViolation", MaxCount)

onViolation_counted(p) ==
  /\ pc[p] = "done" /\ cont[p] = "onViolation" /\ ret[p].kind = "ok"
  /\ recorded' = [recorded EXCEPT ![uid[p]] = @ + 1]
  /\ IF ret[p].value > maxTabSwitches
     THEN /\ op' = [op EXCEPT ![p] = "cancelTest"]
          /\ pc' = [pc EXCEPT ![p] = "getDoc"]
          /\ ret' = [ret EXCEPT ![p] = NoRet]
          /\ cont' = [cont EXCEPT ![p] = "onViolation_cancel"]
     ELSE /\ cont' = [cont EXCEPT ![p] = "none"]
          /\ UNCHANGED <<op, pc, ret>>
  /\ UNCHANGED <<store, now, uid, arg, req, resp, results, call, out>>

\* The caller takes the result; the flow is free for its next call.
Return(p) ==
  /\ pc[p] = "done"
  /\ cont[p] = "onViolation" => ret[p].kind = "thrown"
  /\ cont[p] # "submitTestResult"
  /\ pc' = [pc EXCEPT ![p] = "idle"]
  /\ op' = [op EXCEPT ![p] = "none"]
  /\ uid' = [uid EXCEPT ![p] = "p1"]
  /\ arg' = [arg EXCEPT ![p] = NoData]
  /\ resp' = [resp EXCEPT ![p] = "none"]
  /\ ret' = [ret EXCEPT ![p] = NoRet]
  /\ cont' = [cont EXCEPT ![p] = "none"]
  /\ UNCHANGED <<store, now, req, recorded, results, call, out>>

\* Time passes.
Tick ==
  /\ now < MaxClock
  /\ now' = now + 1
  /\ UNCHANGED <<store, op, pc, uid, arg, req, resp, ret, cont, recorded,
                 results, call, out>>

Step(p, cap) ==
  \/ getUserTestStatus_getDoc(p)
  \/ getUserTestStatus_create(p)
  \/ getUserTestStatus_setDoc(p)
  \/ updateUserTestStatus_updateDoc(p)
  \/ updateUserTestStatus_setDoc(p)
  \/ markTestAsSubmitted_getDoc(p)
  \/ markTestAsSubmitted_write(p)
  \/ incrementTabSwitchCount_getDoc(p, cap)
  \/ incrementTabSwitchCount_write(p)
  \/ cancelTest_getDoc(p)
  \/ cancelTest_write(p)
  \/ Return(p)

\* Two flows, any interleaving of their store calls, one participant; no
\* caller passes a tabSwitchCount to updateUserTestStatus.
CountFree == {status \in PartialStatuses : "tabSwitchCount" \notin DOMAIN status}

Next ==
  Tick \/ \E p \in Procs : Start(p, {"p1"}, CountFree, MaxTabs) \/ Step(p, MaxTabs)

Spec == Init /\ [][Next]_vars

\* One flow: no two operations overlap.
NextSeq == Tick \/ Start(1, Users, PartialStatuses, MaxTabs) \/ Step(1, MaxTabs)

SpecSeq == Init /\ [][NextSeq]_vars

\* The exam page of one flow: tab switches only.
NextExam ==
  \/ Tick
  \/ onViolation(1, Users)
  \/ onViolation_counted(1)
  \/ incrementTabSwitchCount_getDoc(1, MaxCount)
  \/ incrementTabSwitchCount_write(1)
  \/ cancelTest_getDoc(1)
  \/ cancelTest_write(1)
  \/ Return(1)

SpecExam == Init /\ [][NextExam]_vars

\* One flow that submits results and reads them back.
NextResults ==
  \/ Tick
  \/ submitTestResult(1, Users)
  \/ markTestAsSubmitted_getDoc(1)
  \/ markTestAsSubmitted_write(1)
  \/ submitTestResult_marked(1)
  \/ submitTestResult_addDoc(1)
  \/ getUserTestResults(1, Users)
  \/ getUserTestResults_getDocs(1)
  \/ Return(1)

SpecResults == Init /\ [][NextResults]_vars

\* Two flows, any interleaving, one participant: getUserTestStatus,
\* markTestAsSubmitted, incrementTabSwitchCount and cancelTest only.
NextFlags ==
  \/ Tick
  \/ \E p \in Procs :
       \/ \E o \in StatusOps : Call(p, o, "p1", NoData, "none", MaxTabs)
       \/ getUserTestStatus_getDoc(p)
       \/ getUserTestStatus_create(p)
       \/ getUserTestStatus_setDoc(p)
       \/ markTestAsSubmitted_getDoc(p)
       \/ markTestAsSubmitted_write(p)
       \/ incrementTabSwitchCount_getDoc(p, MaxTabs)
       \/ incrementTabSwitchCount_write(p)
       \/ cancelTest_getDoc(p)
       \/ cancelTest_write(p)
       \/ Return(p)

SpecFlags == Init /\ [][NextFlags]_vars

\* One flow and one participant: every asynchronous operation of testService.
\* The results submitted have score 1 and the completedAt 0.
ResultsOfP1 ==
  {testResult \in TestResults({"p1"}) :
     testResult.score = 1 /\ testResult.completedAt = 0}

NextAll ==
  \/ Tick
  \/ Start(1, {"p1"}, PartialStatuses, MaxTabs)
  \/ Step(1, MaxTabs)
  \/ submitTestResultOf(1, ResultsOfP1)
  \/ submitTestResult_marked(1)
  \/ submitTestResult_addDoc(1)
  \/ getUserTestResults(1, {"p1"})
  \/ getUserTestResults_getDocs(1)
  \/ getAllTestResults(1)
  \/ getAllTestResults_getDocs(1)

SpecAll == Init /\ [][NextAll]_vars

\* Two callers that call shuffleQuestions again and again, each call with a
\* list of different questions and one of four participant ids.  The function
\* is synchronous: a call returns in the step in which it is made.
DistinctLists ==
  {l \in QuestionLists : \A i, j \in DOMAIN l : l[i] = l[j] => i = j}

CallerIds == {<<"p">>, <<"1">>, <<"p", "1">>, <<"p", "2">>}

shuffleQuestions_sync(p) ==
  /\ pc[p] = "idle"
  /\ \E questions \in DistinctLists, userId \in CallerIds :
       /\ arg' = [arg EXCEPT ![p] = [questions |-> questions,
                                     userId |-> userId]]
       /\ ret' = [ret EXCEPT ![p] = Ok(shuffleQuestions(questions, userId))]
  /\ op' = [op EXCEPT ![p] = "shuffleQuestions"]
  /\ pc' = [pc EXCEPT ![p] = "done"]
  /\ UNCHANGED <<store, now, uid, req, resp, cont, recorded, results, call, out>>

InitShuffle == store = [u \in {} |-> NoData] /\ IdleFlows /\ NoResults

NextShuffle == \E p \in Procs : shuffleQuestions_sync(p) \/ Return(p)

SpecShuffle == InitShuffle /\ [][NextShuffle]_vars

\* One call of a synchronous function, at any of the instants.
NextPure ==
  \/ Pass
  \/ calculateScore_call
  \/ getGradeFromPercentage_call
  \/ isTestAvailable_call
  \/ getTestEndTime_call
  \/ shuffleQuestions_call

SpecPure == InitPure /\ [][NextPure]_vars

\* Two flows that each call incrementTabSwitchCount once for participant p1,
\* who has no record or a record just created by getUserTestStatus.
InitRace ==
  /\ store \in {[u \in {} |-> NoData], [u \in {"p1"} |-> defaultStatus(u, 0)]}
  /\ IdleFlows
  /\ NoResults

NextRace ==
  \/ Tick
  \/ \E p \in Procs :
       \/ /\ resp[p] = "none"
          /\ Call(p, "incrementTabSwitchCount", "p1", NoData, "none", MaxTabs)
       \/ incrementTabSwitchCount_getDoc(p, MaxTabs)
       \/ incrementTabSwitchCount_write(p)

SpecRace == InitRace /\ [][NextRace]_vars

\* ================================================================= claims
Has(d, f, v) == f \in DOMAIN d /\ d[f] = v

\* The tabSwitchCount stored for u; a record that does not exist counts as 0.
StoredCount(st, u) == IF u \in DOMAIN st THEN CountOf(st[u]) ELSE 0

ReturnedOk(p, o) == pc[p] = "done" /\ op[p] = o /\ ret[p].kind = "ok"

\* The default record of participant u created at instant t.
DefaultRecord(u, t) ==
  [userId |-> u, hasSubmitted |-> FALSE, tabSwitchCount |-> 0,
   isTestCancelled |-> FALSE, lastActivity |-> t]

\* Every field of the old record other than those in changed is in the new
\* record with the same value, and the new record has no further field.
FrameKept(old, new, changed) ==
  /\ DOMAIN new = DOMAIN old \cup changed
  /\ \A f \in DOMAIN old \ changed : new[f] = old[f]

\* C1 (SpecRace): when two concurrent incrementTabSwitchCount calls for the
\* freshly-created participant p1 have both returned, the stored
\* tabSwitchCount is 2, whatever the interleaving of their reads and writes.
C1_TwoIncrementsStoreTwo ==
  (\A p \in Procs : ReturnedOk(p, "incrementTabSwitchCount"))
    => StoredCount(store, "p1") = 2

\* C2 (Spec): no step of getUserTestStatus, markTestAsSubmitted,
\* incrementTabSwitchCount, cancelTest, or of an updateUserTestStatus whose
\* partial status has no tabSwitchCount, decreases a stored tabSwitchCount.
C2_CountNeverDecreases ==
  [][\A u \in Users : StoredCount(store', u) >= StoredCount(store, u)]_vars

\* The incrementTabSwitchCount calls for u that have returned a count.
ReturnedIncrements(u) ==
  recorded[u] + (IF \E p \in Procs : /\ ReturnedOk(p, "incrementTabSwitchCount")
                                     /\ cont[p] = "onViolation" /\ uid[p] = u
                 THEN 1 ELSE 0)

\* C3 (SpecExam): with no concurrent operation, incrementTabSwitchCount sends
\* a write of c+1, c being the stored count (0 if the record is absent or has
\* no tabSwitchCount), creating the record if absent, and returns the count it
\* stored; the n-th call from no count returns n and leaves n stored.
C3_IncrementSequential ==
  /\ \A p \in Procs :
       (op[p] = "incrementTabSwitchCount" /\ pc[p] = "write") =>
         /\ Has(req[p].data, "tabSwitchCount", StoredCount(store, uid[p]) + 1)
         /\ req[p].kind = (IF uid[p] \in DOMAIN store THEN "updateDoc" ELSE "setDoc")
  /\ \A p \in Procs :
       (ReturnedOk(p, "incrementTabSwitchCount") /\ cont[p] = "onViolation") =>
         /\ uid[p] \in DOMAIN store
         /\ Has(store[uid[p]], "tabSwitchCount", ret[p].value)
         /\ ret[p].value = ReturnedIncrements(uid[p])
  /\ \A u \in Users : StoredCount(store, u) = ReturnedIncrements(u)

C3_Witness ==
  /\ ReturnedOk(1, "incrementTabSwitchCount") /\ cont[1] = "onViolation"
  /\ ret[1].value = 3 /\ recorded[uid[1]] = 2
  /\ Has(store[uid[1]], "tabSwitchCount", 3)

Cancelled(u) == u \in DOMAIN store /\ Has(store[u], "isTestCancelled", TRUE)

GetStatusFailure(c) ==
  [code |-> "none", message |-> <<"Failed to get user test status: ", c>>]

\* C5 (SpecSeq): getUserTestStatus for a participant with no stored record
\* sends a setDoc of the default record with lastActivity = now, and when a
\* write of it succeeds that record is stored and is the value returned; for
\* such a participant the read step never returns a value; and whenever
\* getUserTestStatus returns a value, a record for the participant exists.
C5_GetCreatesDefault ==
  [][\A p \in Procs :
       op[p] = "getUserTestStatus" =>
         /\ (uid[p] \notin DOMAIN store /\ pc[p] \in {"getDoc", "create"}
               /\ pc'[p] \in {"create", "setDoc"} /\ pc'[p] # pc[p])
              => req'[p] = [kind |-> "setDoc", data |-> DefaultRecord(uid[p], now)]
         /\ (uid[p] \notin DOMAIN store /\ pc[p] = "getDoc" /\ pc'[p] = "done")
              => ret'[p].kind = "thrown"
         /\ (uid[p] \notin DOMAIN store /\ pc[p] \in {"create", "setDoc"}
               /\ pc'[p] = "done" /\ resp'[p] = "ok")
              => /\ \E t \in 0..now : req[p].data = DefaultRecord(uid[p], t)
                 /\ ret'[p] = [kind |-> "ok", value |-> req[p].data]
                 /\ uid[p] \in DOMAIN store'
                 /\ store'[uid[p]] = req[p].data
         /\ (pc[p] # "done" /\ ret'[p].kind = "ok") => uid[p] \in DOMAIN store'
    ]_vars

C5_Witness ==
  /\ ReturnedOk(1, "getUserTestStatus")
  /\ uid[1] = "p2" /\ DOMAIN store = {"p2"}
  /\ now = 1
  /\ store["p2"] = DefaultRecord("p2", 1)
  /\ ret[1].value = DefaultRecord("p2", 1)

\* C6 (SpecSeq): in getUserTestStatus a read that fails with not-found or
\* permission-denied throws nothing: the operation sends the write of the
\* default record, and returns that record when the write succeeds; a read
\* that fails with another code, and a failure of that write, throw the error
\* wrapped as 'Failed to get user test status: ...' and store nothing.
C6_GetFailures ==
  [][\A p \in Procs :
       op[p] = "getUserTestStatus" =>
         /\ (pc[p] = "getDoc" /\ pc'[p] # "getDoc") =>
              /\ resp'[p] \in {"not-found", "permission-denied"} =>
                   /\ pc'[p] = "setDoc"
                   /\ ret'[p].kind = "none"
                   /\ req'[p] = [kind |-> "setDoc",
                                 data |-> DefaultRecord(uid[p], now)]
              /\ resp'[p] \in ErrorCodes \ {"not-found", "permission-denied"} =>
                   /\ pc'[p] = "done"
                   /\ ret'[p] = [kind |-> "thrown",
                                 error |-> GetStatusFailure(resp'[p])]
              /\ store' = store
         /\ (pc[p] = "setDoc" /\ pc'[p] # "setDoc") =>
              /\ pc'[p] = "done"
              /\ resp'[p] = "ok" =>
                   /\ ret'[p] = [kind |-> "ok", value |-> req[p].data]
                   /\ Has(store', uid[p], req[p].data)
              /\ resp'[p] # "ok" =>
                   /\ ret'[p] = [kind |-> "thrown",
                                 error |-> GetStatusFailure(resp'[p])]
                   /\ store' = store
    ]_vars

\* A read has failed with permission-denied and the write of the default
\* record is on its way.
C6_Witness ==
  /\ op[1] = "getUserTestStatus" /\ pc[1] = "setDoc"
  /\ resp[1] = "permission-denied"
  /\ req[1] = [kind |-> "setDoc", data |-> DefaultRecord(uid[1], now)]

\* The step in which the store applies the updateDoc of flow p's
\* updateUserTestStatus to an existing record.
UpdateApplied(p) ==
  /\ op[p] = "updateUserTestStatus" /\ pc[p] = "updateDoc"
  /\ uid[p] \in DOMAIN store
  /\ pc'[p] = "done" /\ resp'[p] = "ok"

\* updateUserTestStatus takes lastActivity from the clock when it is called.
UpdateStamped(p) ==
  (pc[p] = "idle" /\ op'[p] = "updateUserTestStatus")
    => Has(req'[p].data, "lastActivity", now)

\* C7, as stated (SpecSeq): updateUserTestStatus on an existing record sets
\* every field of the partial status to the given value, sets lastActivity to
\* now and leaves every other stored field unchanged.
C7_UpdateSetsEveryField ==
  [][\A p \in Procs :
       /\ UpdateStamped(p)
       /\ UpdateApplied(p) =>
            /\ \A f \in DOMAIN arg[p] : Has(store'[uid[p]], f, arg[p][f])
            /\ Has(store'[uid[p]], "lastActivity", req[p].data.lastActivity)
            /\ FrameKept(store[uid[p]], store'[uid[p]],
                         DOMAIN arg[p] \cup {"lastActivity"})
    ]_vars

\* C7, amended (SpecSeq): updateUserTestStatus on an existing record sets
\* every field of the partial status other than lastActivity to the given
\* value, sets lastActivity to now (a lastActivity in the partial status is
\* ignored) and leaves every other stored field unchanged.
C7_UpdateMerges ==
  [][\A p \in Procs :
       /\ UpdateStamped(p)
       /\ UpdateApplied(p) =>
            /\ \A f \in DOMAIN arg[p] \ {"lastActivity"} :
                 Has(store'[uid[p]], f, arg[p][f])
            /\ Has(store'[uid[p]], "lastActivity", req[p].data.lastActivity)
            /\ FrameKept(store[uid[p]], store'[uid[p]],
                         DOMAIN arg[p] \cup {"lastActivity"})
    ]_vars

\* An update of hasSubmitted has been applied at instant 1 to a record that
\* keeps its tabSwitchCount of 2.
C7_Witness ==
  /\ ReturnedOk(1, "updateUserTestStatus")
  /\ arg[1] = [hasSubmitted |-> TRUE]
  /\ uid[1] \in DOMAIN store
  /\ Has(store[uid[1]], "hasSubmitted", TRUE)
  /\ Has(store[uid[1]], "tabSwitchCount", 2)
  /\ Has(store[uid[1]], "lastActivity", 1)

\* C8 (SpecSeq): updateUserTestStatus(id, partial) gives the same result with
\* and without a record: on not-found it creates the defaults overridden by
\* the partial status, and in both cases the written record has every field
\* of the partial status with the given value and a lastActivity taken from
\* the clock during the call; a failure other than not-found is thrown and
\* creates no record.
C8_UpsertConverges ==
  [][\A p \in Procs :
       op[p] = "updateUserTestStatus" =>
         /\ UpdateApplied(p) =>
              /\ \A f \in DOMAIN arg[p] \ {"lastActivity"} :
                   Has(store'[uid[p]], f, arg[p][f])
              /\ Has(store'[uid[p]], "lastActivity", req[p].data.lastActivity)
         /\ (pc[p] = "updateDoc" /\ pc'[p] = "setDoc") =>
              /\ uid[p] \notin DOMAIN store
              /\ req'[p].kind = "setDoc"
              /\ \A f \in DOMAIN arg[p] \ {"lastActivity"} :
                   Has(req'[p].data, f, arg[p][f])
              /\ \A f \in DOMAIN DefaultRecord(uid[p], now) \ DOMAIN arg[p] :
                   Has(req'[p].data, f, DefaultRecord(uid[p], now)[f])
              /\ "lastActivity" \in DOMAIN req'[p].data
              /\ req'[p].data.lastActivity \in req[p].data.lastActivity .. now
         /\ (pc[p] = "setDoc" /\ pc'[p] = "done" /\ resp'[p] = "ok") =>
              Has(store', uid[p], req[p].data)
         /\ (pc[p] # "done" /\ ret'[p].kind = "thrown") => store' = store
    ]_vars

\* C9 (SpecSeq): markTestAsSubmitted, with no concurrent operation, writes
\* hasSubmitted = true and submissionDate = now; when the write succeeds the
\* record has them, an existing record keeping its other fields and a new
\* record having tabSwitchCount 0 and isTestCancelled false.
C9_MarkSubmitted ==
  [][\A p \in Procs :
       op[p] = "markTestAsSubmitted" =>
         /\ (pc[p] = "getDoc" /\ pc'[p] = "write") =>
              /\ Has(req'[p].data, "hasSubmitted", TRUE)
              /\ Has(req'[p].data, "submissionDate", now)
              /\ Has(req'[p].data, "lastActivity", now)
         /\ (pc[p] = "write" /\ pc'[p] = "done" /\ resp'[p] = "ok") =>
              /\ ret'[p].kind = "ok"
              /\ uid[p] \in DOMAIN store'
              /\ Has(store'[uid[p]], "hasSubmitted", TRUE)
              /\ Has(store'[uid[p]], "submissionDate", req[p].data.submissionDate)
              /\ IF uid[p] \in DOMAIN store
                 THEN FrameKept(store[uid[p]], store'[uid[p]],
                                {"hasSubmitted", "submissionDate", "lastActivity"})
                 ELSE /\ Has(store'[uid[p]], "tabSwitchCount", 0)
                      /\ Has(store'[uid[p]], "isTestCancelled", FALSE)
    ]_vars

\* A record with two violations has been marked submitted at instant 1.
C9_Witness ==
  /\ ReturnedOk(1, "markTestAsSubmitted")
  /\ uid[1] \in DOMAIN store
  /\ Has(store[uid[1]], "hasSubmitted", TRUE)
  /\ Has(store[uid[1]], "submissionDate", 1)
  /\ Has(store[uid[1]], "tabSwitchCount", 2)

\* C10 (SpecSeq): cancelTest, with no concurrent operation, writes
\* isTestCancelled = true; when the write succeeds the record has it, an
\* existing record keeping its other fields and a new record having
\* hasSubmitted false and tabSwitchCount 0.
C10_CancelTest ==
  [][\A p \in Procs :
       op[p] = "cancelTest" =>
         /\ (pc[p] = "getDoc" /\ pc'[p] = "write") =>
              Has(req'[p].data, "isTestCancelled", TRUE)
         /\ (pc[p] = "write" /\ pc'[p] = "done" /\ resp'[p] = "ok") =>
              /\ ret'[p].kind = "ok"
              /\ uid[p] \in DOMAIN store'
              /\ Has(store'[uid[p]], "isTestCancelled", TRUE)
              /\ IF uid[p] \in DOMAIN store
                 THEN FrameKept(store[uid[p]], store'[uid[p]],
                                {"isTestCancelled", "lastActivity"})
                 ELSE /\ Has(store'[uid[p]], "hasSubmitted", FALSE)
                      /\ Has(store'[uid[p]], "tabSwitchCount", 0)
    ]_vars

\* A submitted record with two violations has been cancelled.
C10_Witness ==
  /\ ReturnedOk(1, "cancelTest")
  /\ uid[1] \in DOMAIN store
  /\ Has(store[uid[1]], "isTestCancelled", TRUE)
  /\ Has(store[uid[1]], "hasSubmitted", TRUE)
  /\ Has(store[uid[1]], "tabSwitchCount", 2)

\* The documents of the collection that belong to participant u.
RecordsOf(coll, u) == {i \in 1..Len(coll) : coll[i].data.userId = u}

Newest(coll) == coll[Len(coll)]

\* C11 (SpecResults): submitTestResult adds the result record only after the
\* write that sets hasSubmitted = true has completed, so the participant's
\* status has hasSubmitted = true whenever a record is added; and when
\* marking the session submitted fails, submitTestResult throws and adds no
\* record.
C11_MarkedBeforeAdded ==
  [][/\ results' # results =>
          \E p \in Procs :
            /\ op[p] = "submitTestResult" /\ pc[p] = "addDoc"
            /\ arg[p].userId \in DOMAIN store
            /\ Has(store[arg[p].userId], "hasSubmitted", TRUE)
     /\ \A p \in Procs :
          ( /\ cont[p] = "submitTestResult" /\ pc[p] = "done"
            /\ ret[p].kind = "thrown"
            /\ cont'[p] # cont[p] ) =>
              /\ pc'[p] = "done" /\ op'[p] = "submitTestResult"
              /\ ret'[p].kind = "thrown"
              /\ results' = results
    ]_vars

\* A submit has returned: the record is there and the status is marked.
C11_Witness ==
  /\ ReturnedOk(1, "submitTestResult")
  /\ Len(results) = 1
  /\ Has(store[arg[1].userId], "hasSubmitted", TRUE)

\* C12 (SpecResults): the record submitTestResult hands to addDoc has
\* completedAt = the instant of that call, whatever completedAt the caller
\* supplied, and every other field as the caller supplied it; the store
\* persists exactly that record.
C12_CompletedAtOverwritten ==
  [][\A p \in Procs :
       /\ (pc[p] # "addDoc" /\ pc'[p] = "addDoc") =>
            /\ req'[p].data.completedAt = now
            /\ DOMAIN req'[p].data = DOMAIN arg[p] \cup {"completedAt"}
            /\ \A f \in DOMAIN arg[p] \ {"completedAt"} :
                 req'[p].data[f] = arg[p][f]
       /\ (pc[p] = "addDoc" /\ results' # results) =>
            Newest(results').data = req[p].data
    ]_vars

\* A result submitted with completedAt 1 has been persisted with completedAt 0.
C12_Witness ==
  /\ ReturnedOk(1, "submitTestResult")
  /\ arg[1].completedAt = 1
  /\ Newest(results).data.completedAt = 0
  /\ Newest(results).data.score = arg[1].score

\* C13 (SpecResults): the testResults collection only grows by one record at
\* a time, added at its end by a submitTestResult that returns the new
\* record's identity, which no earlier record has; the earlier records stay
\* as they are; and every successful submitTestResult adds one record to those
\* of its participant, whether or not hasSubmitted was already true.
C13_AppendOnly ==
  [][/\ results' # results =>
          /\ Len(results') = Len(results) + 1
          /\ SubSeq(results', 1, Len(results)) = results
          /\ \A i \in 1..Len(results) : results[i].id # Newest(results').id
          /\ \E p \in Procs :
               /\ op[p] = "submitTestResult" /\ pc[p] = "addDoc"
               /\ ret'[p] = Ok(Newest(results').id)
     /\ \A p \in Procs :
          ( /\ op[p] = "submitTestResult" /\ pc[p] = "addDoc"
            /\ pc'[p] = "done" /\ ret'[p].kind = "ok" ) =>
              /\ Len(results') = Len(results) + 1
              /\ Newest(results').data.userId = arg[p].userId
              /\ ret'[p].value = Newest(results').id
              /\ Cardinality(RecordsOf(results', arg[p].userId))
                   = Cardinality(RecordsOf(results, arg[p].userId)) + 1
    ]_vars

\* The third submit of one participant has returned: three records.
C13_Witness ==
  /\ ReturnedOk(1, "submitTestResult")
  /\ Cardinality(RecordsOf(results, "p1")) = 3
  /\ ret[1].value = 3

\* C14 (SpecResults): getUserTestResults(id) returns one entry for each
\* record whose userId is id and no other entry, each entry being the
\* record's fields with its store identity, the entries ordered by
\* completedAt descending.
C14_UserResultsSorted ==
  \A p \in Procs :
    ReturnedOk(p, "getUserTestResults") =>
      LET r == ret[p].value IN
        /\ Len(r) = Cardinality(RecordsOf(results, uid[p]))
        /\ \A k \in RecordsOf(results, uid[p]) :
             \E i \in DOMAIN r :
               /\ r[i].id = results[k].id
               /\ \A f \in DOMAIN results[k].data : r[i][f] = results[k].data[f]
        /\ \A i \in DOMAIN r : r[i].userId = uid[p]
        /\ \A i, j \in DOMAIN r :
             i < j => r[i].completedAt >= r[j].completedAt

\* Two results of p1 with different completedAt and one of p2 are stored;
\* p1's have been returned, the later one first.
C14_Witness ==
  /\ ReturnedOk(1, "getUserTestResults")
  /\ uid[1] = "p1"
  /\ Len(results) = 3
  /\ Len(ret[1].value) = 2
  /\ ret[1].value[1].completedAt > ret[1].value[2].completedAt

\* The call of fn has returned.
Returned(fn) == call.fn = fn /\ out.kind = "ok"

\* The number of answers marked correct.
CorrectIn(answers) ==
  Cardinality({i \in DOMAIN answers : answers[i].isCorrect})

\* C15 (SpecPure): for a non-empty answer list calculateScore returns
\* score = the number of answers with isCorrect = true, between 0 and the
\* length, and percentage = the integer nearest to score / length * 100 (a
\* half rounding up), between 0 and 100; 2 correct of 3 give 67.
C15_ScoreAndPercentage ==
  (Returned("calculateScore") /\ call.answers # <<>>) =>
    LET n == Len(call.answers)
        c == CorrectIn(call.answers)
        v == out.value
    IN  /\ v.score = c
        /\ 0 <= v.score /\ v.score <= n
        /\ ~v.percentage.nan
        /\ v.percentage.val \in 0..100
        /\ 2 * n * v.percentage.val <= 200 * c + n
        /\ 200 * c + n < 2 * n * (v.percentage.val + 1)
        /\ (c = 2 /\ n = 3) => v.percentage.val = 67

\* Two correct answers of three have been scored 2 and 67.
C15_Witness ==
  /\ Returned("calculateScore")
  /\ Len(call.answers) = 3
  /\ CorrectIn(call.answers) = 2
  /\ out.value = [score |-> 2, percentage |-> Num(67)]

\* C16 (SpecPure): calculateScore of the empty answer list returns score 0
\* and percentage 0, not NaN.
C16_EmptyScoresZero ==
  (Returned("calculateScore") /\ call.answers = <<>>) =>
    out.value = [score |-> 0, percentage |-> Num(0)]

\* The inclusive lower bounds of the grades; every other percentage is an F.
GradeBounds == {<<90, "A+">>, <<80, "A">>, <<70, "B+">>, <<60, "B">>, <<50, "C">>}

\* C17 (SpecPure): for every integer percentage in 0..100,
\* getGradeFromPercentage returns the grade of the highest bound that does
\* not exceed the percentage, and F when every bound exceeds it; 90 gives A+,
\* 89 A, 50 C and 49 F.
C17_GradeThresholds ==
  (Returned("getGradeFromPercentage") /\ ~call.percentage.nan) =>
    LET v == call.percentage.val
        g == out.value.grade
        met == {b \in GradeBounds : b[1] <= v}
    IN  /\ met = {} => g = "F"
        /\ \A b \in met : (\A b2 \in met : b2[1] <= b[1]) => g = b[2]
        /\ g \in {"A+", "A", "B+", "B", "C", "F"}
        /\ v = 90 => g = "A+"
        /\ v = 89 => g = "A"
        /\ v = 50 => g = "C"
        /\ v = 49 => g = "F"

\* 90 has been graded A+.
C17_Witness ==
  /\ Returned("getGradeFromPercentage")
  /\ call.percentage = Num(90)
  /\ out.value.grade = "A+"

\* C18 (SpecPure): isTestAvailable called at an instant t returns true when
\* start <= t < start + 30 minutes, the start included, and false when
\* t < start.
C18_AvailableInWindow ==
  [][(call.fn = "isTestAvailable" /\ out.kind = "none" /\ out'.kind = "ok") =>
       /\ (testStartTime <= now /\ now < testStartTime + 30 * 60 * 1000) =>
            out'.value = TRUE
       /\ now < testStartTime => out'.value = FALSE
    ]_vars

\* Called at the start of the window, isTestAvailable has returned true.
C18_Witness ==
  /\ Returned("isTestAvailable")
  /\ now = testStartTime
  /\ out.value = TRUE

\* C19 (SpecPure): isTestAvailable called at an instant t >= start + 30
\* minutes, the instant getTestEndTime returns included, returns false.
C19_UnavailableFromEnd ==
  [][/\ (call.fn = "isTestAvailable" /\ out.kind = "none" /\ out'.kind = "ok"
         /\ now >= testStartTime + 30 * 60 * 1000) => out'.value = FALSE
     /\ (call.fn = "getTestEndTime" /\ out.kind = "none" /\ out'.kind = "ok") =>
          out'.value = testStartTime + 30 * 60 * 1000
    ]_vars

\* How often question q occurs in the list.
Occurrences(list, q) == Cardinality({i \in DOMAIN list : list[i] = q})

\* C20 (SpecPure): shuffleQuestions returns a list of the length of its input
\* in which every question occurs as often as in the input; the empty list
\* gives the empty list.
C20_ShuffleIsPermutation ==
  Returned("shuffleQuestions") =>
    /\ Len(out.value) = Len(call.questions)
    /\ \A q \in Questions :
         Occurrences(out.value, q) = Occurrences(call.questions, q)
    /\ \A i \in DOMAIN out.value : out.value[i] \in Questions
    /\ call.questions = <<>> => out.value = <<>>

\* Four questions, three of them different, have been returned in another
\* order.
C20_Witness ==
  /\ Returned("shuffleQuestions")
  /\ Len(call.questions) = 4
  /\ \A q \in Questions : Occurrences(call.questions, q) >= 1
  /\ out.value # call.questions

RECURSIVE RefSeed(_)
RefSeed(userId) ==
  IF userId = <<>> THEN 0
  ELSE charCodeAt(userId[1]) + RefSeed(SubSeq(userId, 2, Len(userId)))

\* The state after t draws: state * 9301 + 49297 mod 233280, the product
\* summed as state * 9000 + state * 301.
RECURSIVE RefState(_, _)
RefState(seed, t) ==
  IF t = 0 THEN seed
  ELSE LET state == RefState(seed, t - 1)
       IN  (((state * 9000) % 233280) + ((state * 301) % 233280) + 49297)
             % 233280

\* The t-th swap is at i = length - t (counted from 0) with
\* j = floor(state / 233280 * (i + 1)).
RefJ(seed, length, t) == (RefState(seed, t) * (length - t + 1)) \div 233280

\* The list after t swaps.
RECURSIVE RefShuffle(_, _, _)
RefShuffle(list, seed, t) ==
  IF t = 0 THEN list
  ELSE LET before == RefShuffle(list, seed, t - 1)
           i == Len(list) - t
           j == RefJ(seed, Len(list), t)
       IN  [x \in DOMAIN list |-> IF x = i + 1 THEN before[j + 1]
                                  ELSE IF x = j + 1 THEN before[i + 1]
                                  ELSE before[x]]

\* C24 (SpecPure): shuffleQuestions returns what the reference algorithm
\* returns: seeded with the sum of the character codes of the id, it draws
\* state = (state * 9301 + 49297) mod 233280 for i from length - 1 down to 1
\* and swaps positions i and j = floor(state / 233280 * (i + 1)); every state
\* drawn lies in 0..233279 and every j in 0..i.
C24_ShuffleIsReference ==
  Returned("shuffleQuestions") =>
    LET n == Len(call.questions)
        seed == RefSeed(call.userId)
        swaps == IF n = 0 THEN 0 ELSE n - 1
    IN  /\ out.value = RefShuffle(call.questions, seed, swaps)
        /\ \A t \in 1..swaps :
             /\ RefState(seed, t) \in 0..233279
             /\ RefJ(seed, n, t) \in 0..(n - t)

\* The list q1 q2 q3 q1 has been shuffled for the id p1: q1 q2 q1 q3.
C24_Witness ==
  /\ Returned("shuffleQuestions")
  /\ call.userId = <<"p", "1">>
  /\ call.questions = <<"q1", "q2", "q3", "q1">>
  /\ out.value = <<"q1", "q2", "q1", "q3">>
  /\ RefJ(RefSeed(call.userId), 4, 1) < 3

\* The store calls an operation awaits first, and those it awaits after
\* another one.
FirstCalls == {"getDoc", "updateDoc"}
SecondCalls == {"create", "setDoc", "write"}

\* C25 (SpecSeq): getUserTestStatus, updateUserTestStatus,
\* markTestAsSubmitted, incrementTabSwitchCount and cancelTest issue at most
\* two store calls: when the first one has been answered the operation ends
\* or issues one write, and when that write has been answered, failed or
\* not, the operation ends.
C25_AtMostTwoStoreCalls ==
  [][\A p \in Procs :
       (op[p] \in StatusOps \cup {"updateUserTestStatus"} /\ pc'[p] # pc[p]) =>
         /\ pc[p] \in FirstCalls => pc'[p] \in SecondCalls \cup {"done"}
         /\ pc[p] \in SecondCalls => pc'[p] = "done"
    ]_vars

\* Flow p is awaiting a store call and in this step the store answers it
\* with a failure.
StoreCallFails(p) ==
  /\ pc[p] \in FirstCalls \cup SecondCalls \cup {"addDoc", "getDocs"}
  /\ pc'[p] # pc[p]
  /\ resp'[p] \in ErrorCodes

\* The failures that the operations recover from: a read of getUserTestStatus
\* that fails with not-found or permission-denied, and an updateDoc of
\* updateUserTestStatus that fails with not-found.
DocumentedFallback(p) ==
  \/ /\ op[p] = "getUserTestStatus" /\ pc[p] = "getDoc"
     /\ resp'[p] \in {"not-found", "permission-denied"}
  \/ /\ op[p] = "updateUserTestStatus" /\ pc[p] = "updateDoc"
     /\ resp'[p] = "not-found"

\* C22 (SpecAll): apart from the two documented fallbacks, every failure of a
\* store call makes the operation that awaits it end by throwing, and
\* submitTestResult throws when its markTestAsSubmitted has thrown.
C22_FailuresAreThrown ==
  [][\A p \in Procs :
       /\ (StoreCallFails(p) /\ ~DocumentedFallback(p)) =>
            (pc'[p] = "done" /\ ret'[p].kind = "thrown")
       /\ ( /\ cont[p] = "submitTestResult" /\ pc[p] = "done"
            /\ ret[p].kind = "thrown" /\ cont'[p] # cont[p] ) =>
              (pc'[p] = "done" /\ ret'[p].kind = "thrown")
    ]_vars

\* The record of u has hasSubmitted = true or isTestCancelled = true.
Flagged(u) ==
  /\ u \in DOMAIN store
  /\ Has(store[u], "hasSubmitted", TRUE) \/ Has(store[u], "isTestCancelled", TRUE)

\* Flow p can call each of the five operations for u (the model makes no
\* call of incrementTabSwitchCount at MaxTabs and none of submitTestResult at
\* MaxResults).
CanCall(p, u) ==
  /\ \A o \in {"markTestAsSubmitted", "cancelTest"} :
       ENABLED Call(p, o, u, NoData, "none", MaxTabs)
  /\ \A status \in PartialStatuses :
       ENABLED Call(p, "updateUserTestStatus", u, status, "none", MaxTabs)
  /\ StoredCount(store, u) < MaxTabs =>
       ENABLED Call(p, "incrementTabSwitchCount", u, NoData, "none", MaxTabs)
  /\ Len(results) < MaxResults =>
       ENABLED submitTestResultOf(p, TestResults({u}))

\* Flow p, within one of the five operations, can take its next step with
\* the store answering ok.
CanProceed(p) ==
  ENABLED ( /\ \/ Step(p, MaxTabs)
               \/ submitTestResult_marked(p)
               \/ submitTestResult_addDoc(p)
            /\ pc'[p] # pc[p] \/ cont'[p] # cont[p]
            /\ resp'[p] = "ok" /\ ret'[p].kind # "thrown" )

FiveOps == {"incrementTabSwitchCount", "updateUserTestStatus",
            "markTestAsSubmitted", "cancelTest", "submitTestResult"}

\* C23 (SpecAll): when the participant's record has hasSubmitted = true or
\* isTestCancelled = true, incrementTabSwitchCount, updateUserTestStatus,
\* markTestAsSubmitted, cancelTest and submitTestResult can still be called
\* and can still take every one of their steps, and their writes have their
\* usual effect: the stored count goes up by one and is returned, the update
\* is merged into the record, the flags are set, a further result is added.
C23_FlagsAreNoLock ==
  [][\A p \in Procs :
       Flagged(uid[p]) =>
         /\ pc[p] = "idle" => CanCall(p, uid[p])
         /\ (op[p] \in FiveOps /\ pc[p] \notin {"idle", "done"}) => CanProceed(p)
         /\ (pc[p] = "done" /\ cont[p] = "submitTestResult"
               /\ ret[p].kind = "ok") => CanProceed(p)
         /\ (pc[p] \in {"write", "updateDoc"} /\ pc'[p] = "done"
               /\ resp'[p] = "ok") =>
              /\ store'[uid[p]] = Merge(store[uid[p]], req[p].data)
              /\ op[p] = "incrementTabSwitchCount" =>
                   /\ StoredCount(store', uid[p]) = StoredCount(store, uid[p]) + 1
                   /\ ret'[p] = Ok(StoredCount(store', uid[p]))
              /\ op[p] = "markTestAsSubmitted" =>
                   Has(store'[uid[p]], "hasSubmitted", TRUE)
              /\ op[p] = "cancelTest" =>
                   Has(store'[uid[p]], "isTestCancelled", TRUE)
              /\ op[p] = "updateUserTestStatus" =>
                   \A f \in DOMAIN arg[p] \ {"lastActivity"} :
                     Has(store'[uid[p]], f, arg[p][f])
         /\ (pc[p] = "addDoc" /\ pc'[p] = "done" /\ resp'[p] = "ok") =>
              /\ Len(results') = Len(results) + 1
              /\ Newest(results').data.userId = uid[p]
    ]_vars

\* The record of p1 is submitted and cancelled and counts two violations;
\* a second result of p1 has just been added.
C23_Witness ==
  /\ ReturnedOk(1, "submitTestResult")
  /\ Has(store["p1"], "hasSubmitted", TRUE)
  /\ Has(store["p1"], "isTestCancelled", TRUE)
  /\ Has(store["p1"], "tabSwitchCount", 2)
  /\ Cardinality(RecordsOf(results, "p1")) = 2

\* The record of u in st has the flag f set.
FlagSet(st, u, f) == u \in DOMAIN st /\ Has(st[u], f, TRUE)

\* C26 (SpecFlags): once the stored record of a participant has
\* hasSubmitted = true, or isTestCancelled = true, no step of any interleaving
\* of getUserTestStatus, markTestAsSubmitted, incrementTabSwitchCount and
\* cancelTest leaves it without that flag.
C26_FlagsAreSticky ==
  [][\A u \in Users, f \in {"hasSubmitted", "isTestCancelled"} :
       FlagSet(store, u, f) => FlagSet(store', u, f)
    ]_vars

\* What a record says about the participant: its flags and its count, a
\* missing one read as false and as 0, and its submissionDate if it has one.
Says(d) ==
  [hasSubmitted |-> OrElse(d, "hasSubmitted", FALSE),
   tabSwitchCount |-> CountOf(d),
   isTestCancelled |-> OrElse(d, "isTestCancelled", FALSE),
   submissionDate |-> IF "submissionDate" \in DOMAIN d
                      THEN <<d.submissionDate>> ELSE <<>>]

\* C27 (SpecSeq): while getUserTestStatus runs for a participant whose record
\* exists, no step changes the hasSubmitted, submissionDate, tabSwitchCount or
\* isTestCancelled of that record, whether the read succeeds or fails with
\* permission-denied or not-found; and the values returned are the stored ones.
C27_GetKeepsRecord ==
  [][\A p \in Procs :
       (op[p] = "getUserTestStatus" /\ uid[p] \in DOMAIN store) =>
         /\ uid[p] \in DOMAIN store'
         /\ Says(store'[uid[p]]) = Says(store[uid[p]])
         /\ (pc[p] # "done" /\ pc'[p] = "done" /\ ret'[p].kind = "ok") =>
              Says(ret'[p].value) = Says(store[uid[p]])
    ]_vars

\* C28 (SpecResults): a submitTestResult that throws leaves the participant's
\* status record as it was before the call and adds no result.  Here no
\* record is submitted at first and only submitTestResult writes a status, so
\* when a submitTestResult has thrown, a participant whose record has
\* hasSubmitted = true has a result in the collection.
C28_SubmitAllOrNothing ==
  \A p \in Procs :
    (pc[p] = "done" /\ op[p] = "submitTestResult" /\ ret[p].kind = "thrown") =>
      (FlagSet(store, arg[p].userId, "hasSubmitted") =>
         RecordsOf(results, arg[p].userId) # {})

\* Field f is in both records with the same value, or in neither.
SameField(old, new, f) ==
  /\ (f \in DOMAIN old) = (f \in DOMAIN new)
  /\ f \in DOMAIN old => new[f] = old[f]

\* The fields an operation, other than its own and lastActivity, must keep.
OtherFields(o) ==
  CASE o = "incrementTabSwitchCount" ->
         {"hasSubmitted", "submissionDate", "isTestCancelled"}
    [] o = "markTestAsSubmitted" -> {"tabSwitchCount", "isTestCancelled"}
    [] o = "cancelTest" -> {"hasSubmitted", "submissionDate", "tabSwitchCount"}

\* C29 (SpecSeq): with no concurrent operation, no step of
\* incrementTabSwitchCount on an existing record changes its hasSubmitted,
\* submissionDate or isTestCancelled, no step of markTestAsSubmitted its
\* tabSwitchCount or isTestCancelled, and no step of cancelTest its
\* hasSubmitted, submissionDate or tabSwitchCount; and a step of any
\* operation changes no record but that of the operation's participant.
C29_OnlyOwnField ==
  [][/\ \A p \in Procs :
          (op[p] \in {"incrementTabSwitchCount", "markTestAsSubmitted",
                      "cancelTest"}
             /\ pc[p] \in {"getDoc", "write"} /\ uid[p] \in DOMAIN store) =>
            /\ uid[p] \in DOMAIN store'
            /\ \A f \in OtherFields(op[p]) :
                 SameField(store[uid[p]], store'[uid[p]], f)
     /\ \A v \in DOMAIN store :
          /\ v \in DOMAIN store'
          /\ store'[v] # store[v] =>
               \E p \in Procs : pc[p] \notin {"idle", "done"} /\ uid[p] = v
     /\ \A v \in DOMAIN store' \ DOMAIN store :
          \E p \in Procs : pc[p] \notin {"idle", "done"} /\ uid[p] = v
    ]_vars

\* incrementTabSwitchCount has counted a violation on the submitted and
\* cancelled record of p1 while p2 has a record of their own.
C29_Witness ==
  /\ ReturnedOk(1, "incrementTabSwitchCount") /\ uid[1] = "p1"
  /\ DOMAIN store = {"p1", "p2"}
  /\ Has(store["p1"], "hasSubmitted", TRUE)
  /\ Has(store["p1"], "isTestCancelled", TRUE)
  /\ "submissionDate" \in DOMAIN store["p1"]
  /\ Has(store["p1"], "tabSwitchCount", 1)
  /\ Has(store["p2"], "isTestCancelled", TRUE)

====
